---- MODULE Spec2Model ----
(***************************************************************************)
(* A model of the LC-3 virtual machine of strNophix/lc3-vm: the Memory of  *)
(* src/memory.rs, the Cpu of src/cpu.rs and the host of src/main.rs, which *)
(* builds both, loads one program image with write_at and calls execute.   *)
(* One action stands for one whole turn of the loop of Cpu::execute: the   *)
(* fetch, the decoding and the handler of the opcode.                      *)
(***************************************************************************)
EXTENDS Integers, Sequences, FiniteSets, TLC

(***************************************************************************)
(* Bounds of the model.                                                    *)
(***************************************************************************)
\* the longest program image the host hands to write_at
MaxLen == 2
\* the number of instruction cycles of one run that are explored
MaxSteps == 4
\* the number of calls the host makes on a Memory
MaxCalls == 3

(***************************************************************************)
(* Program constants.                                                      *)
(***************************************************************************)
\* memory.rs: const LC3_MEMORY_SIZE: usize = 1 << 16
LC3_MEMORY_SIZE == 65536

\* cpu.rs: enum ConditionFlag
POS == 1
ZRO == 2
NEG == 4

\* cpu.rs: enum Register, the index of each slot of Cpu::registers
R0 == 0
R7 == 7
PC == 8
COND == 9
COUNT == 10

\* cpu.rs: Cpu::new, the program start address
PC_START == 12288

(***************************************************************************)
(* u16 arithmetic.                                                         *)
(***************************************************************************)
RECURSIVE Pow2(_)
Pow2(n) == IF n = 0 THEN 1 ELSE 2 * Pow2(n - 1)

\* x >> n on u16
Shr(x, n) == x \div Pow2(n)

\* a & b on u16, bit by bit
RECURSIVE BitAnd(_, _)
BitAnd(a, b) ==
    IF a = 0 \/ b = 0 THEN 0
    ELSE (IF a % 2 = 1 /\ b % 2 = 1 THEN 1 ELSE 0) + 2 * BitAnd(a \div 2, b \div 2)

\* !x on u16
BitNot(x) == (LC3_MEMORY_SIZE - 1) - x

\* a + b on u16 when the sum is representable or the build wraps
WrapAdd(a, b) == (a + b) % LC3_MEMORY_SIZE

\* the value of the low w bits of f read as a two's complement number of w
\* bits, modulo 2^16 (the architecture's sign extension; the code has none)
SignExtend(f, w) ==
    LET low == f % Pow2(w)
    IN  IF low >= Pow2(w - 1) THEN (low + LC3_MEMORY_SIZE - Pow2(w)) % LC3_MEMORY_SIZE
        ELSE low

(***************************************************************************)
(* Memory: [u16; 65536], zero at construction.  The array is represented   *)
(* by its non-zero cells: a function from the addresses that hold a        *)
(* non-zero word to that word; every other cell of the 65536 holds 0.      *)
(***************************************************************************)
Memory_new == [a \in {} |-> 0]

\* impl Index<u16> for Memory
MemRead(m, a) == IF a \in DOMAIN m THEN m[a] ELSE 0

\* an IndexMut that drops the top bit of the address
MemWrite_aliased(m, a, v) ==
    IF v = 0 THEN [x \in (DOMAIN m) \ {a % 32768} |-> m[x]]
    ELSE [x \in (DOMAIN m) \cup {a % 32768} |-> IF x = a % 32768 THEN v ELSE m[x]]

\* impl IndexMut<u16> for Memory
MemWrite(m, a, v) ==
    IF v = 0 THEN [x \in (DOMAIN m) \ {a} |-> m[x]]
    ELSE [x \in (DOMAIN m) \cup {a} |-> IF x = a THEN v ELSE m[x]]

\* a write_at that copies without checking the range
write_at_unchecked(values, offset) == offset + Len(values) >= 0

\* Memory::write_at: the slice offset .. offset + len must lie in the array
\* (else the slicing panics before anything is copied), then copy_from_slice
write_at_in_range(values, offset) == offset + Len(values) <= LC3_MEMORY_SIZE

RECURSIVE write_at_copy(_, _, _, _)
write_at_copy(m, values, offset, i) ==
    IF i > Len(values) THEN m
    ELSE write_at_copy(MemWrite(m, offset + i - 1, values[i]), values, offset, i + 1)

(***************************************************************************)
(* Decoding.                                                               *)
(***************************************************************************)
\* impl From<u16> for Opcode
Opcode_from(value) ==
    LET top == Shr(value, 12)
    IN  CASE top = 0 -> "BR"   [] top = 1 -> "ADD"  [] top = 2 -> "LD"
          [] top = 3 -> "ST"   [] top = 4 -> "JSR"  [] top = 5 -> "AND"
          [] top = 6 -> "LDR"  [] top = 7 -> "STR"  [] top = 8 -> "RTI"
          [] top = 9 -> "NOT"  [] top = 10 -> "LDI" [] top = 11 -> "STI"
          [] top = 12 -> "JMP" [] top = 13 -> "RES" [] top = 14 -> "LEA"
          [] top = 15 -> "TRAP"
          [] OTHER -> "panic"

\* a decoder that takes an unknown trap vector for HALT instead of panicking
Trapcode_from_lenient(value) ==
    CASE value = 32 -> "GETC"  [] value = 33 -> "OUT"   [] value = 34 -> "PUTS"
      [] value = 35 -> "IN"    [] value = 36 -> "PUTSP"
      [] OTHER -> "HALT"

\* impl From<u16> for Trapcode
Trapcode_from(value) ==
    CASE value = 32 -> "GETC"  [] value = 33 -> "OUT"   [] value = 34 -> "PUTS"
      [] value = 35 -> "IN"    [] value = 36 -> "PUTSP" [] value = 37 -> "HALT"
      [] OTHER -> "panic"

\* char::from_u32 on a u16: None exactly for the surrogates D800..DFFF
char_from_u32_ok(c) == ~(c >= 55296 /\ c <= 57343)

(***************************************************************************)
(* The inputs of the model.                                                *)
(***************************************************************************)
\* instruction and data words the host's program images are made of
Words ==
    { \h0801, \h0201,                  \* BRn +1, BRp +1
      \h1025, \h127F, \h1401,          \* ADD R0,R0,#5; ADD R1,R1,#-1; ADD R2,R0,R1
      \h2200, \h2000,                  \* LD R1,+0; LD R0,+0
      \h3001,                          \* ST R0,+1
      \h4802, \h4FFF, \h41C0,          \* JSR +2; JSR -1; JSRR R7
      \h5260,                          \* AND R1,R1,#0
      \h6281, \h62BF,                  \* LDR R1,R2,#1; LDR R1,R2,#-1
      \h7281,                          \* STR R1,R2,#1
      \h8000,                          \* RTI
      \h903F, \h927F,                  \* NOT R0,R0; NOT R1,R1
      \hA000, \hA300,                  \* LDI R0,+0; LDI R1,-256
      \hB000,                          \* STI R0,+0
      \hC040,                          \* JMP R1
      \hD000,                          \* RES
      \hE1FE,                          \* LEA R0,-2
      \hF020, \hF021, \hF022, \hF023,  \* TRAP GETC, OUT, PUTS, IN
      \hF024, \hF025, \hF026 }         \* TRAP PUTSP, HALT, TRAP x26

\* longer program images: a string at the address in R0 that is printed by
\* PUTS or PUTSP, then HALT
Scenarios ==
    { <<\hE002, \hF022, \hF025, 72, 73>>,      \* LEA R0,+2; PUTS; HALT; "HI"
      <<\hE002, \hF022, \hF025, \hD800>>,      \* the same with a surrogate
      <<\hE002, \hF024, \hF025, \h4948, 74>>,  \* LEA R0,+2; PUTSP; HALT; "HI", "J"
      <<\h903F, \h7000, \hF022, \hF025>>,      \* NOT R0,R0; STR R0,R0,#0; PUTS; HALT
      <<\h903F, \h7000, \hF024, \hF025>> }     \* NOT R0,R0; STR R0,R0,#0; PUTSP; HALT

\* every program image of at most MaxLen words, and the longer ones
Images == UNION { [1 .. n -> Words] : n \in 1 .. MaxLen } \cup Scenarios

\* the origins the host loads an image at
Origins == { PC_START, LC3_MEMORY_SIZE - 1 }

\* what one read of a byte from stdin can give: a byte, end of stream
\* (Ok(0), the buffer keeps its 0) or an error
ReadResults ==
    { [kind |-> "byte", byte |-> 0], [kind |-> "byte", byte |-> 65],
      [kind |-> "byte", byte |-> 200],
      [kind |-> "eof", byte |-> 0], [kind |-> "err", byte |-> 0] }

(***************************************************************************)
(* State.                                                                  *)
(***************************************************************************)
VARIABLES
    registers,        \* Cpu::registers: [u16; COUNT]
    memory,           \* Memory
    state,            \* where main is: "new", "running", "halted", "fatal"
    overflow_checks,  \* the build: TRUE when u16 overflow panics (debug)
    stdout,           \* the code points printed so far
    instr,            \* the word fetched by the last cycle, -1 before any
    pre,              \* registers and memory when the last cycle began
    read,             \* what the last cycle's read of stdin gave, or "none"
    steps,            \* the number of cycles (of calls on Memory) so far
    call,             \* the host's last call on Memory and what it returned
    written           \* for each address the host wrote, the last value written

vars == <<registers, memory, state, overflow_checks, stdout, instr, pre, read, steps,
          call, written>>

\* Cpu::new
Cpu_new == [r \in 0 .. (COUNT - 1) |->
              IF r = COND THEN ZRO ELSE IF r = PC THEN PC_START ELSE 0]

\* main, lines 6-7: the Cpu and the Memory are built
Init ==
    /\ registers = Cpu_new
    /\ memory = Memory_new
    /\ state = "new"
    /\ overflow_checks \in BOOLEAN
    /\ stdout = <<>>
    /\ instr = -1
    /\ pre = [registers |-> Cpu_new, memory |-> Memory_new, stdout |-> <<>>]
    /\ read = "none"
    /\ steps = 0
    /\ call = [op |-> "none", offset |-> 0, values |-> <<>>, result |-> 0]
    /\ written = Memory_new

\* the cells a call write_at(values, offset) names, and the record of what
\* the host wrote after it
write_at_cells(values, offset) == { offset + i - 1 : i \in 1 .. Len(values) }
write_at_written(values, offset) ==
    [a \in (DOMAIN written) \cup write_at_cells(values, offset) |->
        IF a \in write_at_cells(values, offset) THEN values[a - offset + 1]
        ELSE written[a]]

\* Memory::write_at(values, offset) called by the host, which goes on in
\* state st when the call returns
write_at_call(values, offset, st) ==
    /\ call' = [op |-> "write_at", offset |-> offset, values |-> values, result |-> 0]
    /\ IF write_at_in_range(values, offset)
       THEN /\ memory' = write_at_copy(memory, values, offset, 1)
            /\ written' = write_at_written(values, offset)
            /\ state' = st
       ELSE /\ memory' = memory
            /\ written' = written
            /\ state' = "fatal"

\* main, line 9: memory.write_at(&instr, origin), then line 10 calls execute
write_at ==
    /\ state = "new"
    /\ \E values \in Images, offset \in Origins :
          write_at_call(values, offset, "running")
    /\ UNCHANGED <<registers, overflow_checks, stdout, instr, pre, read, steps>>

(***************************************************************************)
(* Cpu: the pieces every cycle shares.                                     *)
(***************************************************************************)
\* a loop whose HALT arm does not return
Running_after_halt == state \in {"running", "halted"} /\ steps < MaxSteps

\* the loop of Cpu::execute takes another turn
Running == state = "running" /\ steps < MaxSteps

\* a + b on u16 panics in a build with overflow checks when it overflows
add_panics(checks, a, b) == checks /\ a + b >= LC3_MEMORY_SIZE

\* Cpu::fetch: the word at PC, and the registers after PC += 1
fetch_value == MemRead(memory, registers[PC])
fetch_panics == add_panics(overflow_checks, registers[PC], 1)
fetch_registers == [registers EXCEPT ![PC] = WrapAdd(@, 1)]

\* an update_flags that clears COND for a zero value
update_flags_clears(regs, r) ==
    IF regs[r] = 0 THEN [regs EXCEPT ![COND] = 0]
    ELSE IF Shr(regs[r], 15) = 1 THEN [regs EXCEPT ![COND] = NEG]
    ELSE [regs EXCEPT ![COND] = POS]

\* Cpu::update_flags(r), on the register file regs
update_flags(regs, r) ==
    IF regs[r] = 0 THEN [regs EXCEPT ![COND] = ZRO]
    ELSE IF Shr(regs[r], 15) = 1 THEN [regs EXCEPT ![COND] = NEG]
    ELSE [regs EXCEPT ![COND] = POS]

\* the cycle that fetched an opcode op begins
Decoded(op) == Running /\ ~fetch_panics /\ Opcode_from(fetch_value) = op

\* the cycle ends: the registers, memory, output and outcome it leaves
Finish(regs, mem, out, st, rd) ==
    /\ registers' = regs
    /\ memory' = mem
    /\ stdout' = out
    /\ state' = st
    /\ read' = rd
    /\ instr' = fetch_value
    /\ pre' = [registers |-> registers, memory |-> memory, stdout |-> stdout]
    /\ steps' = steps + 1
    /\ UNCHANGED <<overflow_checks, call, written>>

\* the cycle goes on to the next turn of the loop
Continue(regs, mem) == Finish(regs, mem, stdout, "running", "none")

\* the cycle panics, leaving what it had written so far
Panic(regs, mem) == Finish(regs, mem, stdout, "fatal", "none")

\* Cpu::fetch panics on PC += 1: nothing was written and no word is bound
fetch_overflow ==
    /\ Running
    /\ fetch_panics
    /\ state' = "fatal"
    /\ instr' = -1
    /\ pre' = [registers |-> registers, memory |-> memory, stdout |-> stdout]
    /\ read' = "none"
    /\ steps' = steps + 1
    /\ UNCHANGED <<registers, memory, stdout, overflow_checks, call, written>>

(***************************************************************************)
(* Cpu::execute: one action for each arm of the match on the opcode.       *)
(***************************************************************************)
BR ==
    /\ Decoded("BR")
    /\ LET r == fetch_registers
           cond == BitAnd(Shr(fetch_value, 9), 7)
           pc_offset == BitAnd(fetch_value, 255)
       IN  IF BitAnd(cond, r[COND]) = 1
           THEN IF add_panics(overflow_checks, r[PC], pc_offset)
                THEN Panic(r, memory)
                ELSE Continue([r EXCEPT ![PC] = WrapAdd(@, pc_offset)], memory)
           ELSE Continue(r, memory)

\* an ADD that takes bits 2:0 for a register whatever the mode bit says
ADD_register_only ==
    /\ Decoded("ADD")
    /\ LET r == fetch_registers
           dr == BitAnd(Shr(fetch_value, 9), 7)
           sr1 == BitAnd(Shr(fetch_value, 6), 7)
           operand == r[BitAnd(fetch_value, 7)]
       IN  IF add_panics(overflow_checks, r[sr1], operand)
           THEN Panic(r, memory)
           ELSE Continue(update_flags([r EXCEPT ![dr] = WrapAdd(r[sr1], operand)], dr),
                         memory)

ADD ==
    /\ Decoded("ADD")
    /\ LET r == fetch_registers
           dr == BitAnd(Shr(fetch_value, 9), 7)
           sr1 == BitAnd(Shr(fetch_value, 6), 7)
           operand == IF BitAnd(Shr(fetch_value, 5), 1) = 0
                      THEN r[BitAnd(fetch_value, 7)]
                      ELSE BitAnd(fetch_value, 31)
       IN  IF add_panics(overflow_checks, r[sr1], operand)
           THEN Panic(r, memory)
           ELSE Continue(update_flags([r EXCEPT ![dr] = WrapAdd(r[sr1], operand)], dr),
                         memory)

LD ==
    /\ Decoded("LD")
    /\ LET r == fetch_registers
           dr == BitAnd(Shr(fetch_value, 9), 7)
           pc_offset == BitAnd(fetch_value, 255)
       IN  IF add_panics(overflow_checks, r[PC], pc_offset)
           THEN Panic(r, memory)
           ELSE Continue(update_flags(
                    [r EXCEPT ![R0] = MemRead(memory, WrapAdd(r[PC], pc_offset))], dr),
                    memory)

ST ==
    /\ Decoded("ST")
    /\ LET r == fetch_registers
           dr == BitAnd(Shr(fetch_value, 9), 7)
           pc_offset == BitAnd(fetch_value, 255)
       IN  IF add_panics(overflow_checks, r[PC], pc_offset)
           THEN Panic(r, memory)
           ELSE Continue(r, MemWrite(memory, WrapAdd(r[PC], pc_offset), r[dr]))

JSR ==
    /\ Decoded("JSR")
    /\ LET r == [fetch_registers EXCEPT ![R7] = fetch_registers[PC]]
       IN  IF BitAnd(Shr(fetch_value, 11), 1) = 1
           THEN LET pc_offset == BitAnd(fetch_value, 1023)
                IN  IF add_panics(overflow_checks, r[PC], pc_offset)
                    THEN Panic(r, memory)
                    ELSE Continue([r EXCEPT ![PC] = WrapAdd(@, pc_offset)], memory)
           ELSE LET r1 == BitAnd(Shr(fetch_value, 6), 7)
                IN  Continue([r EXCEPT ![PC] = r[r1]], memory)

AND ==
    /\ Decoded("AND")
    /\ LET r == fetch_registers
           dr == BitAnd(Shr(fetch_value, 9), 7)
           sr1 == BitAnd(Shr(fetch_value, 6), 7)
           operand == IF BitAnd(Shr(fetch_value, 5), 1) = 0
                      THEN r[BitAnd(fetch_value, 7)]
                      ELSE BitAnd(fetch_value, 31)
       IN  Continue(update_flags([r EXCEPT ![dr] = BitAnd(r[sr1], operand)], dr), memory)

\* Opcode::LDR: the base register and the offset it adds to it
ldr_base(i) == BitAnd(Shr(i, 6), 7)
ldr_offset(i) == BitAnd(i, 63)

LDR ==
    /\ Decoded("LDR")
    /\ LET r == fetch_registers
           dr == BitAnd(Shr(fetch_value, 9), 7)
           base_r == ldr_base(fetch_value)
           offset == ldr_offset(fetch_value)
       IN  IF add_panics(overflow_checks, r[base_r], offset)
           THEN Panic(r, memory)
           ELSE Continue(update_flags(
                    [r EXCEPT ![dr] = MemRead(memory, WrapAdd(r[base_r], offset))], dr),
                    memory)

\* an STR that updates the flags from SR as the loads do from DR
STR_updates_flags ==
    /\ Decoded("STR")
    /\ LET r == fetch_registers
           sr == BitAnd(Shr(fetch_value, 9), 7)
           base_r == BitAnd(Shr(fetch_value, 6), 7)
           offset == BitAnd(Shr(fetch_value, 6), 31)
       IN  IF add_panics(overflow_checks, r[base_r], offset)
           THEN Panic(r, memory)
           ELSE Continue(update_flags(r, sr),
                         MemWrite(memory, WrapAdd(r[base_r], offset), r[sr]))

STR ==
    /\ Decoded("STR")
    /\ LET r == fetch_registers
           sr == BitAnd(Shr(fetch_value, 9), 7)
           base_r == BitAnd(Shr(fetch_value, 6), 7)
           offset == BitAnd(Shr(fetch_value, 6), 31)
       IN  IF add_panics(overflow_checks, r[base_r], offset)
           THEN Panic(r, memory)
           ELSE Continue(r, MemWrite(memory, WrapAdd(r[base_r], offset), r[sr]))

RTI ==
    /\ Decoded("RTI")
    /\ Panic(fetch_registers, memory)

NOT ==
    /\ Decoded("NOT")
    /\ LET r == fetch_registers
           dr == BitAnd(Shr(fetch_value, 9), 7)
           sr == BitAnd(Shr(fetch_value, 6), 7)
       IN  Continue(update_flags([r EXCEPT ![dr] = BitNot(r[sr])], dr), memory)

LDI ==
    /\ Decoded("LDI")
    /\ LET r == fetch_registers
           dr == BitAnd(Shr(fetch_value, 9), 7)
           pc_offset == BitAnd(fetch_value, 255)
       IN  IF add_panics(overflow_checks, r[PC], pc_offset)
           THEN Panic(r, memory)
           ELSE LET loc == WrapAdd(r[PC], pc_offset)
                IN  Continue(update_flags(
                        [r EXCEPT ![dr] = MemRead(memory, MemRead(memory, loc))], dr),
                        memory)

STI ==
    /\ Decoded("STI")
    /\ LET r == fetch_registers
           dr == BitAnd(Shr(fetch_value, 9), 7)
           pc_offset == BitAnd(fetch_value, 255)
       IN  IF add_panics(overflow_checks, r[PC], pc_offset)
           THEN Panic(r, memory)
           ELSE LET addr == MemRead(memory, WrapAdd(r[PC], pc_offset))
                IN  Continue(r, MemWrite(memory, addr, r[dr]))

JMP ==
    /\ Decoded("JMP")
    /\ LET r == fetch_registers
           r1 == BitAnd(Shr(fetch_value, 6), 7)
       IN  Continue([r EXCEPT ![PC] = r[r1]], memory)

RES ==
    /\ Decoded("RES")
    /\ Panic(fetch_registers, memory)

LEA ==
    /\ Decoded("LEA")
    /\ LET r == fetch_registers
           dr == BitAnd(Shr(fetch_value, 9), 7)
           pc_offset == BitAnd(fetch_value, 255)
       IN  IF add_panics(overflow_checks, r[PC], pc_offset)
           THEN Panic(r, memory)
           ELSE Continue(update_flags([r EXCEPT ![dr] = WrapAdd(r[PC], pc_offset)], dr),
                         memory)

(***************************************************************************)
(* Opcode::TRAP: one action for each arm of the match on the trap code.    *)
(***************************************************************************)
\* the TRAP arm up to the match: R7 = PC, then Trapcode::from
trap_registers == [fetch_registers EXCEPT ![R7] = fetch_registers[PC]]
Trapped(code) ==
    Decoded("TRAP") /\ Trapcode_from(BitAnd(fetch_value, 255)) = code

\* "Enter a character: " and "HALT\n" as code points
PROMPT == <<69, 110, 116, 101, 114, 32, 97, 32, 99, 104, 97, 114, 97, 99, 116,
            101, 114, 58, 32>>
HALT_NOTICE == <<72, 65, 76, 84, 10>>

\* the loop of Trapcode::PUTS from loc on: the string built, or a panic
\* (from_u32(..).unwrap() on a surrogate, loc += 1 past 0xFFFF)
RECURSIVE puts_loop(_, _, _, _)
puts_loop(mem, checks, loc, chars) ==
    LET chr == MemRead(mem, loc)
    IN  IF chr = 0 THEN [panic |-> FALSE, chars |-> chars]
        ELSE IF ~char_from_u32_ok(chr) THEN [panic |-> TRUE, chars |-> chars]
        ELSE IF add_panics(checks, loc, 1) THEN [panic |-> TRUE, chars |-> chars]
        ELSE puts_loop(mem, checks, WrapAdd(loc, 1), Append(chars, chr))

\* the loop of Trapcode::PUTSP: the low byte, then the high byte if not 0
RECURSIVE putsp_loop(_, _, _, _)
putsp_loop(mem, checks, loc, chars) ==
    LET chr == MemRead(mem, loc)
        chr2 == Shr(chr, 8)
        low == Append(chars, BitAnd(chr, 255))
        both == IF chr2 # 0 THEN Append(low, chr2) ELSE low
    IN  IF chr = 0 THEN [panic |-> FALSE, chars |-> chars]
        ELSE IF add_panics(checks, loc, 1) THEN [panic |-> TRUE, chars |-> both]
        ELSE putsp_loop(mem, checks, WrapAdd(loc, 1), both)

TRAP_invalid ==
    /\ Trapped("panic")
    /\ Panic(trap_registers, memory)

\* a GETC that updates the flags from R0 as IN does
TRAP_GETC_flags ==
    /\ Trapped("GETC")
    /\ \E res \in ReadResults :
          IF res.kind = "err"
          THEN Finish(trap_registers, memory, stdout, "fatal", res.kind)
          ELSE Finish(update_flags([trap_registers EXCEPT ![R0] = res.byte], R0),
                      memory, stdout, "running", res.kind)

TRAP_GETC ==
    /\ Trapped("GETC")
    /\ \E res \in ReadResults :
          IF res.kind = "err"
          THEN Finish(trap_registers, memory, stdout, "fatal", res.kind)
          ELSE Finish([trap_registers EXCEPT ![R0] = res.byte], memory, stdout,
                      "running", res.kind)

TRAP_OUT ==
    /\ Trapped("OUT")
    /\ LET r == trap_registers
       IN  IF char_from_u32_ok(r[R0])
           THEN Finish(r, memory, Append(stdout, r[R0]), "running", "none")
           ELSE Panic(r, memory)

TRAP_PUTS ==
    /\ Trapped("PUTS")
    /\ LET r == trap_registers
           res == puts_loop(memory, overflow_checks, r[R0], <<>>)
       IN  IF res.panic
           THEN Panic(r, memory)
           ELSE Finish(r, memory, stdout \o res.chars, "running", "none")

TRAP_IN ==
    /\ Trapped("IN")
    /\ \E res \in ReadResults :
          IF res.kind = "err"
          THEN Finish(trap_registers, memory, stdout \o PROMPT, "fatal", res.kind)
          ELSE Finish(update_flags([trap_registers EXCEPT ![R0] = res.byte], R0),
                      memory, stdout \o PROMPT, "running", res.kind)

TRAP_PUTSP ==
    /\ Trapped("PUTSP")
    /\ LET r == trap_registers
           res == putsp_loop(memory, overflow_checks, r[R0], <<>>)
       IN  IF res.panic
           THEN Panic(r, memory)
           ELSE Finish(r, memory, stdout \o res.chars, "running", "none")

TRAP_HALT ==
    /\ Trapped("HALT")
    /\ Finish(trap_registers, memory, stdout \o HALT_NOTICE, "halted", "none")

(***************************************************************************)
(* The specification.                                                      *)
(***************************************************************************)
Next ==
    \/ write_at
    \/ fetch_overflow
    \/ BR \/ ADD \/ LD \/ ST \/ JSR \/ AND \/ LDR \/ STR
    \/ RTI \/ NOT \/ LDI \/ STI \/ JMP \/ RES \/ LEA
    \/ TRAP_invalid \/ TRAP_GETC \/ TRAP_OUT \/ TRAP_PUTS \/ TRAP_IN
    \/ TRAP_PUTSP \/ TRAP_HALT

Spec == Init /\ [][Next]_vars

(***************************************************************************)
(* The Memory on its own: the calls a host can make on it before the run,  *)
(* in any order.                                                           *)
(***************************************************************************)
\* the words, images, origins and addresses the host calls Memory with
MemWords == {0, 1, LC3_MEMORY_SIZE - 1}
MemImages == UNION { [1 .. n -> MemWords] : n \in 0 .. MaxLen }
MemOrigins == {0, LC3_MEMORY_SIZE - 1, LC3_MEMORY_SIZE}
MemAddrs == {0, 1, LC3_MEMORY_SIZE - 1}

\* the host makes another call on the Memory
Calling == state = "new" /\ steps < MaxCalls

\* what every call leaves behind
Called ==
    /\ pre' = [pre EXCEPT !.memory = memory]
    /\ steps' = steps + 1
    /\ UNCHANGED <<registers, overflow_checks, stdout, instr, read>>

\* memory.write_at(values, offset)
Memory_write_at ==
    /\ Calling
    /\ \E values \in MemImages, offset \in MemOrigins :
          write_at_call(values, offset, "new")
    /\ Called

\* memory[a]
Memory_index ==
    /\ Calling
    /\ \E a \in MemAddrs :
          call' = [op |-> "read", offset |-> a, values |-> <<>>,
                   result |-> MemRead(memory, a)]
    /\ UNCHANGED <<memory, written, state>>
    /\ Called

\* memory[a] = v
Memory_index_mut ==
    /\ Calling
    /\ \E a \in MemAddrs, v \in MemWords :
          /\ call' = [op |-> "write", offset |-> a, values |-> <<v>>, result |-> 0]
          /\ memory' = MemWrite(memory, a, v)
          /\ written' = [x \in (DOMAIN written) \cup {a} |->
                            IF x = a THEN v ELSE written[x]]
    /\ UNCHANGED state
    /\ Called

NextMem == Memory_write_at \/ Memory_index \/ Memory_index_mut

SpecMem == Init /\ [][NextMem]_vars

(***************************************************************************)
(* What the properties speak of: the last cycle, read from instr and pre.  *)
(***************************************************************************)
\* bits lo+w-1 .. lo of the instruction word i
Field(i, lo, w) == (i \div Pow2(lo)) % Pow2(w)

\* the last cycle executed opcode op and the loop went on
Ran(op) == instr # -1 /\ Opcode_from(instr) = op /\ state = "running"

\* the PC after the last cycle's fetch
PostPC == WrapAdd(pre.registers[PC], 1)

\* the flag that belongs to the value v
FlagOf(v) == IF v = 0 THEN ZRO ELSE IF v >= 32768 THEN NEG ELSE POS

IsHalt(i) == i # -1 /\ Opcode_from(i) = "TRAP" /\ Field(i, 0, 8) = 37

\* RTI, RES, or a TRAP whose vector is not 0x20 .. 0x25
IsIllegal(i) ==
    /\ i # -1
    /\ Opcode_from(i) \in {"RTI", "RES", "TRAP"}
    /\ Opcode_from(i) = "TRAP" => Field(i, 0, 8) \notin 32 .. 37

(***************************************************************************)
(* C1: execute returns (HALTED) only in a cycle that fetched TRAP x25;     *)
(* every other instruction leaves the CPU running or ends in a fatal       *)
(* error; once HALTED, no register and no memory cell changes.             *)
(***************************************************************************)
C1_HaltOnlyOnTrapHalt ==
    /\ [](state = "halted" => IsHalt(instr))
    /\ []((instr # -1 /\ ~IsHalt(instr)) => state \in {"running", "fatal"})
    /\ [][state = "halted" => UNCHANGED <<registers, memory, state>>]_vars

C1_Witness == state = "halted" /\ IsHalt(instr) /\ steps >= 2

(***************************************************************************)
(* C2: BR is taken exactly when mask & COND # 0: PC becomes the            *)
(* post-increment PC plus the sign-extended PCoffset9 when taken, and the  *)
(* post-increment PC when not.                                             *)
(***************************************************************************)
C2_BranchTakenIffMaskMeetsCond ==
    Ran("BR") =>
        registers[PC] =
            IF BitAnd(Field(instr, 9, 3), pre.registers[COND]) # 0
            THEN WrapAdd(PostPC, SignExtend(Field(instr, 0, 9), 9))
            ELSE PostPC

(***************************************************************************)
(* C3: every offset and immediate field is sign-extended from its own      *)
(* width: PCoffset9 (LEA), PCoffset11 (JSR), offset6 (LDR), imm5 (ADD,     *)
(* AND).                                                                   *)
(***************************************************************************)
C3_FieldsAreSignExtended ==
    /\ Ran("LEA") =>
          registers[Field(instr, 9, 3)]
              = WrapAdd(PostPC, SignExtend(Field(instr, 0, 9), 9))
    /\ (Ran("JSR") /\ Field(instr, 11, 1) = 1) =>
          registers[PC] = WrapAdd(PostPC, SignExtend(Field(instr, 0, 11), 11))
    /\ Ran("LDR") =>
          registers[Field(instr, 9, 3)]
              = MemRead(pre.memory, WrapAdd(pre.registers[Field(instr, 6, 3)],
                                            SignExtend(Field(instr, 0, 6), 6)))
    /\ (Ran("ADD") /\ Field(instr, 5, 1) = 1) =>
          registers[Field(instr, 9, 3)]
              = WrapAdd(pre.registers[Field(instr, 6, 3)],
                        SignExtend(Field(instr, 0, 5), 5))
    /\ (Ran("AND") /\ Field(instr, 5, 1) = 1) =>
          registers[Field(instr, 9, 3)]
              = BitAnd(pre.registers[Field(instr, 6, 3)],
                       SignExtend(Field(instr, 0, 5), 5))

(***************************************************************************)
(* C4: LD writes mem[PC + sext(PCoffset9)] into the register DR of bits    *)
(* 11:9, leaves the other seven general registers unchanged and sets COND  *)
(* from the value DR now holds.                                            *)
(***************************************************************************)
C4_LdWritesDr ==
    Ran("LD") =>
        LET dr == Field(instr, 9, 3)
        IN  /\ registers[dr]
                 = MemRead(pre.memory,
                           WrapAdd(PostPC, SignExtend(Field(instr, 0, 9), 9)))
            /\ \A r \in (R0 .. R7) \ {dr} : registers[r] = pre.registers[r]
            /\ registers[COND] = FlagOf(registers[dr])

(***************************************************************************)
(* C5: after a flag-defining instruction (ADD, AND, NOT, LD, LDR, LDI,     *)
(* LEA) COND is the flag of the value the instruction just wrote: any      *)
(* general register the cycle changed holds a value whose flag COND is.    *)
(***************************************************************************)
FlagDefining == {"ADD", "AND", "NOT", "LD", "LDR", "LDI", "LEA"}

C5_CondMatchesWrittenValue ==
    (instr # -1 /\ state = "running" /\ Opcode_from(instr) \in FlagDefining) =>
        \A r \in R0 .. R7 :
            registers[r] # pre.registers[r] => registers[COND] = FlagOf(registers[r])

(***************************************************************************)
(* C6: in every reachable state COND is exactly one of 0b001, 0b010,       *)
(* 0b100.                                                                  *)
(***************************************************************************)
C6_CondIsOneFlag == registers[COND] \in {POS, ZRO, NEG}

C6_Witness ==
    /\ instr # -1 /\ Opcode_from(instr) \in FlagDefining
    /\ registers[COND] = NEG
    /\ pre.registers[COND] = POS

(***************************************************************************)
(* C7: STR stores SR at BaseR + sext(offset6), offset6 being bits 5:0, and *)
(* the cell that LDR with the same BaseR and offset6 fields then reads     *)
(* holds the stored value.                                                 *)
(***************************************************************************)
C7_StrStoresAtBasePlusOffset6 ==
    /\ Ran("STR") =>
          memory = MemWrite(pre.memory,
                            WrapAdd(pre.registers[Field(instr, 6, 3)],
                                    SignExtend(Field(instr, 0, 6), 6)),
                            pre.registers[Field(instr, 9, 3)])
    /\ Ran("STR") =>
          MemRead(memory, WrapAdd(registers[ldr_base(instr)], ldr_offset(instr)))
              = pre.registers[Field(instr, 9, 3)]

(***************************************************************************)
(* C8: with p = mem[PC + sext(PCoffset9)], LDI loads mem[p] into DR and    *)
(* STI stores SR at mem[p], changing no other cell.                        *)
(***************************************************************************)
C8_Pointer == MemRead(pre.memory, WrapAdd(PostPC, SignExtend(Field(instr, 0, 9), 9)))

C8_IndirectThroughPointer ==
    /\ Ran("LDI") =>
          registers[Field(instr, 9, 3)] = MemRead(pre.memory, C8_Pointer)
    /\ Ran("STI") =>
          memory = MemWrite(pre.memory, C8_Pointer, pre.registers[Field(instr, 9, 3)])

(***************************************************************************)
(* C9: after JSR/JSRR R7 holds the post-increment PC and PC the target:    *)
(* post-increment PC + sext(PCoffset11) when bit 11 is set, else the value *)
(* BaseR held when the instruction was fetched (R7 included); TRAP sets R7 *)
(* to the post-increment PC too.                                           *)
(***************************************************************************)
C9_LinkageAndTarget ==
    /\ Ran("JSR") =>
          /\ registers[R7] = PostPC
          /\ registers[PC] =
                IF Field(instr, 11, 1) = 1
                THEN WrapAdd(PostPC, SignExtend(Field(instr, 0, 11), 11))
                ELSE pre.registers[Field(instr, 6, 3)]
    /\ (instr # -1 /\ Opcode_from(instr) = "TRAP") => registers[R7] = PostPC

(***************************************************************************)
(* C10: RTI, RES and a TRAP whose vector is not in 0x20 .. 0x25 end the    *)
(* run in a fatal error, which is not HALTED, and nothing is fetched or    *)
(* executed after it.                                                      *)
(***************************************************************************)
C10_IllegalIsFatal ==
    /\ [](IsIllegal(instr) => state = "fatal")
    /\ [][state = "fatal" => UNCHANGED vars]_vars

C10_Witness ==
    /\ state = "fatal"
    /\ IsIllegal(instr)
    /\ Opcode_from(instr) = "TRAP"
    /\ steps >= 2

(***************************************************************************)
(* C11: a cycle that ends in a fatal error (RTI, RES, unrecognized trap    *)
(* code) leaves the registers and the memory as they were before its       *)
(* fetch: an illegal instruction has no effect of its own, so a state with *)
(* PC incremented or R7 overwritten is part of a cycle only.               *)
(***************************************************************************)
C11_FatalIsAtomic ==
    (state = "fatal" /\ IsIllegal(instr)) =>
        registers = pre.registers /\ memory = pre.memory

(***************************************************************************)
(* C12: ST, STR, STI, JMP, JSR/JSRR, BR and TRAP leave COND as it was;     *)
(* as the code has it, for every TRAP service but IN, which sets COND from *)
(* the byte it stored in R0.                                               *)
(***************************************************************************)
NotFlagDefining == {"ST", "STR", "STI", "JMP", "JSR", "BR", "TRAP"}

\* the claim as it was made: any service code
C12_NoTrapChangesCond ==
    (instr # -1 /\ Opcode_from(instr) \in NotFlagDefining) =>
        registers[COND] = pre.registers[COND]

C12_OnlyInChangesCond ==
    /\ (instr # -1 /\ Opcode_from(instr) \in NotFlagDefining
          /\ ~(Opcode_from(instr) = "TRAP" /\ Field(instr, 0, 8) = 35)) =>
          registers[COND] = pre.registers[COND]
    /\ (Ran("TRAP") /\ Field(instr, 0, 8) = 35) =>
          registers[COND] = FlagOf(registers[R0])

C12_Witness ==
    /\ Ran("TRAP") /\ Field(instr, 0, 8) = 32
    /\ registers[R0] = 65
    /\ pre.registers[R0] = 0
    /\ registers[COND] = ZRO

(***************************************************************************)
(* C13: from a fresh CPU and zeroed memory with ADD R0,R0,#5 at 0x3000 and *)
(* TRAP HALT at 0x3001 the run halts after two cycles with R0 = 5 and      *)
(* COND = POSITIVE, and no fatal error on the way.                         *)
(***************************************************************************)
C13_Loaded ==
    /\ call.op = "write_at"
    /\ call.values = <<\h1025, \hF025>>
    /\ call.offset = PC_START

C13_AddFiveThenHalt ==
    C13_Loaded =>
        /\ state # "fatal"
        /\ steps >= 1 => (registers[R0] = 5 /\ registers[COND] = POS)
        /\ steps >= 2 => state = "halted"
        /\ state = "halted" => steps = 2

C13_Witness ==
    C13_Loaded /\ state = "halted" /\ registers[R0] = 5 /\ registers[COND] = POS

(***************************************************************************)
(* The strings PUTS and PUTSP are to print, as the architecture has them:  *)
(* the words from loc on, the address wrapping modulo 65536, up to the     *)
(* first zero word.                                                        *)
(***************************************************************************)
RECURSIVE StringAt(_, _, _)
StringAt(mem, loc, fuel) ==
    IF fuel = 0 \/ MemRead(mem, loc) = 0 THEN <<>>
    ELSE <<MemRead(mem, loc)>> \o StringAt(mem, WrapAdd(loc, 1), fuel - 1)

\* the words of the string at the address in R0 when the last cycle began
PreString ==
    StringAt(pre.memory, pre.registers[R0], Cardinality(DOMAIN pre.memory))

\* low byte, then high byte if it is not zero, of every word of str
RECURSIVE Unpack(_)
Unpack(str) ==
    IF str = <<>> THEN <<>>
    ELSE (IF Head(str) \div 256 # 0 THEN <<Head(str) % 256, Head(str) \div 256>>
          ELSE <<Head(str) % 256>>) \o Unpack(Tail(str))

\* the last cycle fetched TRAP with the vector v
TrapFetched(v) == instr # -1 /\ Opcode_from(instr) = "TRAP" /\ Field(instr, 0, 8) = v

(***************************************************************************)
(* C14: PUTS appends to the output exactly the words mem[R0], mem[R0+1],   *)
(* ... up to the first zero word, changes no memory cell and no register   *)
(* but R7, and the run goes on at the instruction after the TRAP.          *)
(***************************************************************************)
C14_PutsPrintsString ==
    TrapFetched(34) =>
        /\ state = "running"
        /\ stdout = pre.stdout \o PreString
        /\ memory = pre.memory
        /\ \A r \in (R0 .. COND) \ {R7, PC} : registers[r] = pre.registers[r]
        /\ registers[PC] = PostPC

(***************************************************************************)
(* C15: PUTSP prints, for each word from mem[R0] on up to the first zero   *)
(* word, the low byte and then the high byte if it is not zero: between n  *)
(* and 2n characters for n words, in memory order.                         *)
(***************************************************************************)
C15_PutspPrintsPackedString ==
    TrapFetched(36) =>
        /\ stdout = pre.stdout \o Unpack(PreString)
        /\ Len(stdout) - Len(pre.stdout) >= Len(PreString)
        /\ Len(stdout) - Len(pre.stdout) <= 2 * Len(PreString)

(***************************************************************************)
(* C16: address arithmetic wraps modulo 65536 and never ends the run: a    *)
(* fetch at PC = 0xFFFF leaves PC = 0 and the cycle goes on, and no        *)
(* instruction that only computes an address, and no PUTSP, is fatal.      *)
(***************************************************************************)
AddressOnly == {"BR", "LD", "ST", "JSR", "LDR", "STR", "LDI", "STI", "JMP", "LEA"}

C16_AddressesWrap ==
    /\ (steps > 0 /\ state # "new" /\ pre.registers[PC] = LC3_MEMORY_SIZE - 1) =>
          /\ instr = MemRead(pre.memory, LC3_MEMORY_SIZE - 1)
          /\ instr = 0 => (state = "running" /\ registers[PC] = 0)
    /\ (instr # -1 /\ Opcode_from(instr) \in AddressOnly) => state = "running"
    /\ TrapFetched(36) => state = "running"

(***************************************************************************)
(* C17: an end of stream or another failure of the input during GETC or IN *)
(* ends the run with a fatal error and assigns nothing to R0.              *)
(***************************************************************************)
C17_InputFailureIsFatal ==
    (instr # -1 /\ read \in {"eof", "err"}) =>
        state = "fatal" /\ registers[R0] = pre.registers[R0]

(***************************************************************************)
(* C18 (SpecMem): write_at(values, origin) with origin + len <= 65536 sets *)
(* cell origin + i to values[i] and leaves every other cell as it was;     *)
(* with origin + len > 65536 it fails and no cell is modified.             *)
(***************************************************************************)
\* the cells that hold a non-zero word before or after the last call
Cells == (DOMAIN memory) \cup (DOMAIN pre.memory)

C18_WriteAtAllOrNothing ==
    call.op = "write_at" =>
        IF call.offset + Len(call.values) <= 65536
        THEN /\ state = "new"
             /\ \A i \in 1 .. Len(call.values) :
                   MemRead(memory, call.offset + i - 1) = call.values[i]
             /\ \A a \in Cells :
                   (a < call.offset \/ a >= call.offset + Len(call.values)) =>
                       MemRead(memory, a) = MemRead(pre.memory, a)
        ELSE /\ state = "fatal"
             /\ memory = pre.memory
             /\ Cells \subseteq 0 .. 65535

C18_Witness ==
    /\ call.op = "write_at"
    /\ call.offset = 65535
    /\ Len(call.values) = 2
    /\ call.values[1] # MemRead(pre.memory, 65535)
    /\ 0 \in DOMAIN pre.memory
    /\ state = "fatal"

(***************************************************************************)
(* C19 (SpecMem): after any sequence of writes a read of address a gives   *)
(* the value of the last write to a, or 0 if a was never written; a write  *)
(* to a changes no other cell (0xFFFF does not alias 0x0000); no address   *)
(* makes a read or a write fail.                                           *)
(***************************************************************************)
LastWritten(a) == IF a \in DOMAIN written THEN written[a] ELSE 0

C19_ReadGivesLastWrite ==
    /\ \A a \in (DOMAIN memory) \cup (DOMAIN written) \cup MemAddrs :
          MemRead(memory, a) = LastWritten(a)
    /\ call.op = "read" => call.result = LastWritten(call.offset)
    /\ call.op \in {"read", "write"} => state = "new"
    /\ call.op = "write" =>
          \A a \in (Cells \cup MemAddrs) \ {call.offset} :
              MemRead(memory, a) = MemRead(pre.memory, a)

C19_Witness ==
    /\ call.op = "read" /\ call.offset = 0 /\ call.result = 0
    /\ 65535 \in DOMAIN written /\ written[65535] = 1
    /\ 0 \notin DOMAIN written

(***************************************************************************)
(* C20: during a run only ST, STR and STI modify memory, each at most one  *)
(* cell and no register other than PC; every other instruction leaves the  *)
(* memory as it was; an instruction that defines a register leaves PC at   *)
(* the post-increment PC and COND one of the three flags: its 3-bit        *)
(* register field selects neither.                                         *)
(***************************************************************************)
Stores == {"ST", "STR", "STI"}

C20_OnlyStoresWriteMemory ==
    instr # -1 =>
        /\ Opcode_from(instr) \notin Stores => memory = pre.memory
        /\ Opcode_from(instr) \in Stores =>
              /\ Cardinality({a \in Cells : MemRead(memory, a) # MemRead(pre.memory, a)})
                    <= 1
              /\ \A r \in (R0 .. COND) \ {PC} : registers[r] = pre.registers[r]
        /\ Opcode_from(instr) \in FlagDefining =>
              /\ registers[PC] = PostPC
              /\ registers[COND] \in {POS, ZRO, NEG}

C20_Witness ==
    /\ Ran("STR")
    /\ memory # pre.memory
    /\ registers[COND] = POS

====
